---- MODULE Spec2Model ----
(***************************************************************************)
(* A model of multipass' LocalSocketReply                                   *)
(* (src/src/network/local_socket_reply.cpp): a QNetworkReply that sends one *)
(* HTTP/1.1 request over a QLocalSocket and parses the single response.     *)
(*                                                                          *)
(* Bytes are ASCII codes.  A QByteArray that may end in the receive         *)
(* buffer's '\0' padding is the record [b |-> bytes, z |-> n]: the bytes b  *)
(* followed by n NUL bytes (the byte streams of the model hold no NUL).     *)
(***************************************************************************)
EXTENDS Integers, Sequences, FiniteSets, TLC

\* ------------------------------------------------------------------------
\* Program constants
\* ------------------------------------------------------------------------
len == 65536

LF == 10

CR == 13

\* ------------------------------------------------------------------------
\* Bounds of the model
\* ------------------------------------------------------------------------
\* the server writes the response in at most this many fragments
MaxFragments == 3

\* the caller calls read() at most this many times
MaxReadCalls == 2

\* the caller calls abort() at most this many times
MaxAborts == 1

\* longest outgoing request body, in bytes
MaxBodyLen == 11

\* most chunks in a chunked response body, the zero-size chunk not counted
MaxChunks == 2

\* ------------------------------------------------------------------------
\* Byte strings
\* ------------------------------------------------------------------------
Min(a, b) == IF a < b THEN a ELSE b

\* QByteArray values: b followed by z NUL bytes
BA(s) == [b |-> s, z |-> 0]

EmptyBA == [b |-> <<>>, z |-> 0]

Size(x) == Len(x.b) + x.z

IsEmpty(x) == Size(x) = 0

StartsWith(x, c) == Len(x.b) > 0 /\ x.b[1] = c

\* QByteArray::contains(pat): case-sensitive substring search; pat holds
\* no NUL, so only the bytes before the padding can match
Contains(x, pat) ==
    \E i \in 1..(Len(x.b) - Len(pat) + 1) : SubSeq(x.b, i, i + Len(pat) - 1) = pat

\* isspace() in the C locale: \t \n \v \f \r and space
IsSpace(c) == c \in {9, 10, 11, 12, 13, 32}

IsDigit(c) == c \in 48..57

FirstNonSpace(s) ==
    IF \A i \in 1..Len(s) : IsSpace(s[i]) THEN Len(s) + 1
    ELSE CHOOSE i \in 1..Len(s) : ~IsSpace(s[i]) /\ \A j \in 1..(i-1) : IsSpace(s[j])

LastNonSpace(s) ==
    IF \A i \in 1..Len(s) : IsSpace(s[i]) THEN 0
    ELSE CHOOSE i \in 1..Len(s) : ~IsSpace(s[i]) /\ \A j \in (i+1)..Len(s) : IsSpace(s[j])

\* QByteArray::trimmed(): whitespace removed from both ends; NUL is not
\* whitespace, so padding at the end keeps the end from being trimmed
Trimmed(x) ==
    IF x.z > 0
    THEN [b |-> SubSeq(x.b, FirstNonSpace(x.b), Len(x.b)), z |-> x.z]
    ELSE [b |-> SubSeq(x.b, FirstNonSpace(x.b), LastNonSpace(x.b)), z |-> 0]

\* the n bytes of x that start at offset off (0-based), off + n <= Size(x)
Mid(x, off, n) ==
    LET fromB == IF off < Len(x.b) THEN Min(n, Len(x.b) - off) ELSE 0
    IN  [b |-> SubSeq(x.b, off + 1, off + fromB), z |-> n - fromB]

\* QByteArray::split(sep): the parts between separators, empty parts kept
RECURSIVE Split(_, _)
Split(s, sep) ==
    IF \A i \in 1..Len(s) : s[i] # sep THEN <<s>>
    ELSE LET k == CHOOSE i \in 1..Len(s) : s[i] = sep /\ \A j \in 1..(i-1) : s[j] # sep
         IN  <<SubSeq(s, 1, k - 1)>> \o Split(SubSeq(s, k + 1, Len(s)), sep)

\* ------------------------------------------------------------------------
\* Response byte streams the server may send
\* ------------------------------------------------------------------------
CRLF == <<13, 10>>

\* "HTTP/1.1 200 OK"
Status200 == <<72,84,84,80,47,49,46,49,32,50,48,48,32,79,75>>

\* "HTTP/1.1 404 Not Found"
Status404 == <<72,84,84,80,47,49,46,49,32,52,48,52,32,78,111,116,32,70,111,117,110,100>>

\* "HTTP/1.1 500 Oops"
Status500 == <<72,84,84,80,47,49,46,49,32,53,48,48,32,79,111,112,115>>

\* "GARBAGE"
Garbage == <<71,65,82,66,65,71,69>>

\* "Transfer-Encoding: chunked"
ChunkedHeader == <<84,114,97,110,115,102,101,114,45,69,110,99,111,100,105,110,103,58,32,99,104,117,110,107,101,100>>

\* "Not Found"
NotFoundPhrase == <<78,111,116,32,70,111,117,110,100>>

\* "test" and "ab"
PayloadTest == <<116,101,115,116>>

PayloadAb == <<97,98>>

\* one chunk of a chunked body: hex size (payloads are shorter than 10
\* bytes, so one digit), CRLF, payload, CRLF
Chunk(p) == <<48 + Len(p)>> \o CRLF \o p \o CRLF

LastChunk == <<48>> \o CRLF \o CRLF

\* 200, no headers, no body
Stream200 == Status200 \o CRLF \o CRLF

\* 200, no headers, body "test" ended by a line feed
Stream200Body == Status200 \o CRLF \o CRLF \o PayloadTest \o <<LF>>

\* 404, no headers, no body
Stream404 == Status404 \o CRLF \o CRLF

\* 500 with the body "ab" ended by a line feed
Stream500Body == Status500 \o CRLF \o CRLF \o PayloadAb \o <<LF>>

\* the chunked bodies: 1..MaxChunks chunks, each "test" or "ab"
Payloads == {PayloadTest, PayloadAb}

ChunkLists == UNION {[1..n -> Payloads] : n \in 1..MaxChunks}

RECURSIVE ChunkedBody(_)
ChunkedBody(cs) ==
    IF cs = << >> THEN LastChunk ELSE Chunk(Head(cs)) \o ChunkedBody(Tail(cs))

RECURSIVE Concat(_)
Concat(cs) == IF cs = << >> THEN << >> ELSE Head(cs) \o Concat(Tail(cs))

\* 200, Transfer-Encoding: chunked, the chunks cs and the zero-size chunk
ChunkedStream(cs) ==
    Status200 \o CRLF \o ChunkedHeader \o CRLF \o CRLF \o ChunkedBody(cs)

\* first line GARBAGE, then a blank line and content
StreamGarbage == Garbage \o CRLF \o CRLF \o PayloadAb \o <<LF>>

Streams ==
    {Stream200, Stream200Body, Stream404, Stream500Body, StreamGarbage}
        \cup {ChunkedStream(cs) : cs \in ChunkLists}

\* offsets in the stream at which the server may end a fragment: inside
\* the status line, between the CR and the LF of a line end, after the
\* blank line, inside the header block and inside a chunk
CutOffsets == {5, 16, 18, 21, 30, 47, 52}

\* sizes the caller passes to read()
ReadSizes == {1, 3, len}


\* ------------------------------------------------------------------------
\* Requests the caller may make
\* ------------------------------------------------------------------------
\* "GET", "POST", "PUT", "DELETE"
OpGet == <<71,69,84>>

OpPost == <<80,79,83,84>>

OpPut == <<80,85,84>>

OpDelete == <<68,69,76,69,84,69>>

Ops == {OpGet, OpPost, OpPut, OpDelete}

\* request.url().toString(): "/1.0" and "/1.0/a"
Urls == {<<47,49,46,48>>, <<47,49,46,48,47,97>>}

\* outgoingData: a null pointer, or a device holding n bytes "a" or the
\* bytes "a=b"
NoOutgoing == [present |-> FALSE, data |-> <<>>]

Outgoings ==
    {NoOutgoing}
        \cup {[present |-> TRUE, data |-> [i \in 1..n |-> 97]] : n \in 0..MaxBodyLen}
        \cup {[present |-> TRUE, data |-> <<97,61,98>>]}

\* mp::version_string, "1.2.0"
version_string == <<49,46,50,46,48>>

\* ------------------------------------------------------------------------
\* State
\* ------------------------------------------------------------------------
VARIABLES
    stream,        \* the response bytes the server sends
    sent,          \* how many of them the server has written
    nfrag,         \* in how many fragments
    sock,          \* bytes in the socket, not yet read
    ready,         \* a readyRead notification is pending
    socket_state,  \* local_socket->state(): "Connected" or "Unconnected"
    closes,        \* number of disconnectFromServer() calls of the reply
    destroyed,     \* the reply has been destroyed
    reply_data,    \* the written part of the receive buffer (NUL padded to len)
    chunked_transfer_encoding,
    content_data,  \* Body
    offset,        \* read cursor
    error,         \* QNetworkReply::error()
    errorString,   \* QNetworkReply::errorString()
    isFinished,    \* QNetworkReply::isFinished()
    openMode,      \* QIODevice::openMode()
    signals,       \* the signals emitted so far, in order
    observed,      \* what a slot reads from the reply at each of them:
                   \* [error, errorString, isFinished]
    returns,       \* what each read() call returned: [n, data]
    aborts,        \* number of abort() calls
    undefined,     \* parse_reply has dereferenced an iterator past the end
    crashed,       \* and the process died of it
    op, url, outgoing,   \* the request
    socket_written,      \* the byte strings written to the socket, in order
    flushes              \* number of flush() calls on the socket

vars == <<stream, sent, nfrag, sock, ready, socket_state, closes, destroyed, reply_data, chunked_transfer_encoding,
          content_data, offset, error, errorString, isFinished, openMode, signals,
          observed, returns, aborts, undefined, crashed, op, url, outgoing, socket_written, flushes>>

transportVars == <<stream, sent, nfrag, sock, ready>>

lifeVars == <<socket_state, closes, destroyed>>

requestVars == <<op, url, outgoing, socket_written, flushes>>

\* ------------------------------------------------------------------------
\* statusCodeFromHttp
\* ------------------------------------------------------------------------
\* statusCodeFromHttp without its case for 409
statusCodeFromHttp_no409(httpStatusCode) ==
    CASE httpStatusCode = 400 -> "ProtocolInvalidOperationError"
      [] httpStatusCode = 401 -> "AuthenticationRequiredError"
      [] httpStatusCode = 403 -> "ContentAccessDenied"
      [] httpStatusCode = 404 -> "ContentNotFoundError"
      [] httpStatusCode = 500 -> "InternalServerError"
      [] OTHER -> IF httpStatusCode > 500 THEN "UnknownServerError"
                  ELSE "UnknownContentError"

statusCodeFromHttp(httpStatusCode) ==
    CASE httpStatusCode = 400 -> "ProtocolInvalidOperationError"
      [] httpStatusCode = 401 -> "AuthenticationRequiredError"
      [] httpStatusCode = 403 -> "ContentAccessDenied"
      [] httpStatusCode = 404 -> "ContentNotFoundError"
      [] httpStatusCode = 409 -> "ContentConflictError"
      [] httpStatusCode = 500 -> "InternalServerError"
      [] OTHER -> IF httpStatusCode > 500 THEN "UnknownServerError"
                  ELSE "UnknownContentError"

\* ------------------------------------------------------------------------
\* parse_status
\* ------------------------------------------------------------------------
\* QString::fromLatin1(QByteArray): the bytes up to the first NUL
fromLatin1(x) == x.b

\* the pattern with a status code of 100..599 only: "[1-5]\d{2}" for "\d{3}"
http_status_match_100to599(s) ==
    /\ Len(s) >= 13
    /\ SubSeq(s, 1, 5) = <<72,84,84,80,47>>
    /\ IsDigit(s[6]) /\ s[7] = 46 /\ IsDigit(s[8])
    /\ s[9] = 32
    /\ s[10] \in 49..53 /\ IsDigit(s[11]) /\ IsDigit(s[12])
    /\ s[13] = 32

\* "^HTTP/\d\.\d (?P<status>\d{3})\ (?P<message>.*)$" on a line that holds
\* no line feed: '.' matches every other character, the carriage return too
http_status_match(s) ==
    /\ Len(s) >= 13
    /\ SubSeq(s, 1, 5) = <<72,84,84,80,47>>
    /\ IsDigit(s[6]) /\ s[7] = 46 /\ IsDigit(s[8])
    /\ s[9] = 32
    /\ IsDigit(s[10]) /\ IsDigit(s[11]) /\ IsDigit(s[12])
    /\ s[13] = 32

\* captured("status").toInt()
capturedStatus(s) == (s[10] - 48) * 100 + (s[11] - 48) * 10 + (s[12] - 48)

\* captured("message")
capturedMessage(s) == SubSeq(s, 14, Len(s))

\* "Malformed HTTP response from server"
MalformedMessage == <<77,97,108,102,111,114,109,101,100,32,72,84,84,80,32,114,101,115,112,111,110,115,101,32,102,114,111,109,32,115,101,114,118,101,114>>

\* parse_status that emits error() before it calls setError()
parse_status_emitFirst(status, e) ==
    LET s == fromLatin1(status)
    IN  IF ~http_status_match(s)
        THEN [error |-> "ProtocolFailure", errorString |-> MalformedMessage,
              emitted |-> << <<"error", "ProtocolFailure">> >>,
              seen |-> << e >>]
        ELSE IF capturedStatus(s) >= 400
        THEN [error |-> statusCodeFromHttp(capturedStatus(s)),
              errorString |-> capturedMessage(s),
              emitted |-> << <<"error", statusCodeFromHttp(capturedStatus(s))>> >>,
              seen |-> << e >>]
        ELSE [error |-> e.error, errorString |-> e.errorString, emitted |-> << >>,
              seen |-> << >>]

\* the reply's error state after parse_status(status), the signals it
\* emits, and the error state a slot sees at each of them; e is the error
\* state before: [error, errorString]
parse_status(status, e) ==
    LET s == fromLatin1(status)
    IN  IF ~http_status_match(s)
        THEN [error |-> "ProtocolFailure", errorString |-> MalformedMessage,
              emitted |-> << <<"error", "ProtocolFailure">> >>,
              seen |-> << [error |-> "ProtocolFailure",
                           errorString |-> MalformedMessage] >>]
        ELSE IF capturedStatus(s) >= 400
        THEN [error |-> statusCodeFromHttp(capturedStatus(s)),
              errorString |-> capturedMessage(s),
              emitted |-> << <<"error", statusCodeFromHttp(capturedStatus(s))>> >>,
              seen |-> << [error |-> statusCodeFromHttp(capturedStatus(s)),
                           errorString |-> capturedMessage(s)] >>]
        ELSE [error |-> e.error, errorString |-> e.errorString, emitted |-> << >>,
              seen |-> << >>]

\* ------------------------------------------------------------------------
\* parse_reply
\* ------------------------------------------------------------------------
\* reply_data.split('\n'): reply_data is the written bytes followed by the
\* NUL padding that is left of the len bytes, so the padding ends the last line
reply_lines(buf) ==
    LET parts == Split(buf, LF)
    IN  [i \in 1..Len(parts) |->
            [b |-> parts[i], z |-> IF i = Len(parts) THEN len - Len(buf) ELSE 0]]

\* "Transfer-Encoding" and "chunked"
TransferEncodingWord == <<84,114,97,110,115,102,101,114,45,69,110,99,111,100,105,110,103>>

ChunkedWord == <<99,104,117,110,107,101,100>>

\* the for loop of parse_reply from line i on: whether a separator line was
\* found, the index of the line the iterator is advanced to, and the flag
RECURSIVE scan_headers(_, _, _)
scan_headers(lines, i, chunked) ==
    IF i > Len(lines)
    THEN [found |-> FALSE, at |-> 0, chunked |-> chunked]
    ELSE LET c == chunked \/ (Contains(lines[i], TransferEncodingWord)
                                /\ Contains(lines[i], ChunkedWord))
         IN  IF IsEmpty(lines[i]) \/ StartsWith(lines[i], CR)
             THEN [found |-> TRUE, at |-> IF c THEN i + 2 ELSE i + 1, chunked |-> c]
             ELSE scan_headers(lines, i + 1, c)

\* what dereferencing an iterator at or past constEnd() may yield: the
\* process dies, or some QByteArray is read from memory that is not a line
PastTheEnd ==
    {[undefined |-> TRUE, crashed |-> TRUE, content |-> EmptyBA],
     [undefined |-> TRUE, crashed |-> FALSE, content |-> EmptyBA],
     [undefined |-> TRUE, crashed |-> FALSE, content |-> BA(<<63>>)]}

\* the outcomes of the body part of parse_reply (lines 203-219)
parse_reply(buf, chunked, content) ==
    LET lines == reply_lines(buf)
        r == scan_headers(lines, 2, chunked)
    IN  IF ~r.found
        THEN {[undefined |-> FALSE, crashed |-> FALSE, content |-> content,
               chunked |-> r.chunked]}
        ELSE IF r.at <= Len(lines)
        THEN {[undefined |-> FALSE, crashed |-> FALSE, content |-> Trimmed(lines[r.at]),
               chunked |-> r.chunked]}
        ELSE {[undefined |-> TRUE, crashed |-> u.crashed, content |-> u.content,
               chunked |-> r.chunked] : u \in PastTheEnd}

\* ------------------------------------------------------------------------
\* read_reply
\* ------------------------------------------------------------------------
\* local_socket->read(reply_data.data(), len) copies the bytes read to the
\* start of the buffer, over what is there
socket_read_into(buf, bytes) ==
    bytes \o SubSeq(buf, Len(bytes) + 1, Len(buf))

\* the do-while loop: read up to len bytes until a read returns none
RECURSIVE drain(_, _)
drain(buf, avail) ==
    IF avail = << >> THEN buf
    ELSE LET n == Min(len, Len(avail))
         IN  drain(socket_read_into(buf, SubSeq(avail, 1, n)),
                   SubSeq(avail, n + 1, Len(avail)))

read_reply ==
    /\ ~crashed /\ ~destroyed
    /\ ready
    /\ LET buf == drain(reply_data, sock)
           st == parse_status(reply_lines(buf)[1],
                              [error |-> error, errorString |-> errorString])
       IN  \E r \in parse_reply(buf, chunked_transfer_encoding, content_data) :
              /\ reply_data' = buf
              /\ error' = st.error
              /\ errorString' = st.errorString
              /\ chunked_transfer_encoding' = r.chunked
              /\ content_data' = r.content
              /\ undefined' = (undefined \/ r.undefined)
              /\ crashed' = r.crashed
              /\ isFinished' = IF r.crashed THEN isFinished ELSE TRUE
              /\ signals' = IF r.crashed THEN signals \o st.emitted
                            ELSE signals \o st.emitted \o << <<"finished", "">> >>
              /\ observed' =
                    LET atError == [i \in 1..Len(st.seen) |->
                                      [error |-> st.seen[i].error,
                                       errorString |-> st.seen[i].errorString,
                                       isFinished |-> isFinished]]
                    IN  IF r.crashed THEN observed \o atError
                        ELSE observed \o atError
                               \o << [error |-> st.error,
                                      errorString |-> st.errorString,
                                      isFinished |-> TRUE] >>
    /\ sock' = << >>
    /\ ready' = FALSE
    /\ UNCHANGED <<stream, sent, nfrag, offset, openMode, returns, aborts>>
    /\ UNCHANGED lifeVars
    /\ UNCHANGED requestVars

\* ------------------------------------------------------------------------
\* abort
\* ------------------------------------------------------------------------
\* "Operation canceled"
CanceledMessage == <<79,112,101,114,97,116,105,111,110,32,99,97,110,99,101,108,101,100>>

abort ==
    /\ ~crashed /\ ~destroyed
    /\ aborts < MaxAborts
    /\ aborts' = aborts + 1
    /\ openMode' = "NotOpen"
    /\ error' = "OperationCanceledError"
    /\ errorString' = CanceledMessage
    /\ isFinished' = TRUE
    /\ signals' = signals \o << <<"error", "OperationCanceledError">>, <<"finished", "">> >>
    /\ observed' = observed
          \o << [error |-> "OperationCanceledError", errorString |-> CanceledMessage,
                 isFinished |-> isFinished],
                [error |-> "OperationCanceledError", errorString |-> CanceledMessage,
                 isFinished |-> TRUE] >>
    /\ UNCHANGED <<reply_data, chunked_transfer_encoding, content_data, offset,
                   returns, undefined, crashed>>
    /\ UNCHANGED transportVars
    /\ UNCHANGED lifeVars
    /\ UNCHANGED requestVars

\* ------------------------------------------------------------------------
\* readData, called by the caller's read(maxSize)
\* ------------------------------------------------------------------------
\* readData that returns 0 bytes at the end of the data instead of -1
readData_zeroAtEnd(maxSize) ==
    LET number == Min(maxSize, Size(content_data) - offset)
    IN  IF offset < Size(content_data)
        THEN [n |-> number, data |-> Mid(content_data, offset, number),
              offset |-> offset + number]
        ELSE [n |-> 0, data |-> EmptyBA, offset |-> offset]

\* the return value, the bytes copied out and the new offset
readData(maxSize) ==
    IF offset < Size(content_data)
    THEN LET number == Min(maxSize, Size(content_data) - offset)
         IN  [n |-> number, data |-> Mid(content_data, offset, number),
              offset |-> offset + number]
    ELSE [n |-> -1, data |-> EmptyBA, offset |-> offset]

\* QIODevice::read() returns -1 on a device that is not open and calls
\* readData otherwise
read(maxSize) ==
    /\ ~crashed /\ ~destroyed
    /\ Len(returns) < MaxReadCalls
    /\ LET r == IF openMode = "ReadOnly" THEN readData(maxSize)
                ELSE [n |-> -1, data |-> EmptyBA, offset |-> offset]
       IN  /\ returns' = Append(returns, [n |-> r.n, data |-> r.data])
           /\ offset' = r.offset
    /\ UNCHANGED <<reply_data, chunked_transfer_encoding, content_data, error,
                   errorString, isFinished, openMode, signals, observed, aborts, undefined, crashed>>
    /\ UNCHANGED transportVars
    /\ UNCHANGED lifeVars
    /\ UNCHANGED requestVars

\* ------------------------------------------------------------------------
\* The server and the socket
\* ------------------------------------------------------------------------
\* the server writes the next k bytes of the response; the socket signals
\* readyRead
deliver(k) ==
    /\ ~crashed /\ ~destroyed
    /\ socket_state = "Connected"
    /\ nfrag < MaxFragments
    /\ sent + k <= Len(stream)
    /\ sent + k \in CutOffsets \/ sent + k = Len(stream)
    /\ nfrag = MaxFragments - 1 => sent + k = Len(stream)
    /\ sock' = sock \o SubSeq(stream, sent + 1, sent + k)
    /\ sent' = sent + k
    /\ nfrag' = nfrag + 1
    /\ ready' = TRUE
    /\ UNCHANGED <<stream, reply_data, chunked_transfer_encoding, content_data, offset,
                   error, errorString, isFinished, openMode, signals, observed, returns,
                   aborts, undefined, crashed>>
    /\ UNCHANGED lifeVars
    /\ UNCHANGED requestVars

\* the server closes the connection: bytes already in the socket stay
\* readable; the constructor connects no slot to the socket's disconnected
\* or error signal (line 88 connects readyRead only), so the reply is not told
peer_disconnect ==
    /\ ~crashed /\ ~destroyed
    /\ socket_state = "Connected"
    /\ socket_state' = "Unconnected"
    /\ UNCHANGED <<closes, destroyed>>
    /\ UNCHANGED transportVars
    /\ UNCHANGED <<reply_data, chunked_transfer_encoding, content_data, offset,
                   error, errorString, isFinished, openMode, signals, observed, returns,
                   aborts, undefined, crashed>>
    /\ UNCHANGED requestVars

\* ------------------------------------------------------------------------
\* ~LocalSocketReply
\* ------------------------------------------------------------------------
\* local_socket is never null after the constructor of lines 82-91; the
\* destroyed reply receives no notification any more
destroy ==
    /\ ~crashed /\ ~destroyed
    /\ destroyed' = TRUE
    /\ closes' = closes + 1
    /\ socket_state' = "Unconnected"
    /\ ready' = FALSE
    /\ UNCHANGED <<stream, sent, nfrag, sock>>
    /\ UNCHANGED <<reply_data, chunked_transfer_encoding, content_data, offset,
                   error, errorString, isFinished, openMode, signals, observed, returns,
                   aborts, undefined, crashed>>
    /\ UNCHANGED requestVars

\* ------------------------------------------------------------------------
\* send_request
\* ------------------------------------------------------------------------
\* QByteArray::number(n), n >= 0: the decimal digits
RECURSIVE number(_)
number(n) == IF n < 10 THEN <<48 + n>> ELSE number(n \div 10) \o <<48 + (n % 10)>>

\* " HTTP/1.1\r\n"
RequestLineEnd == <<32,72,84,84,80,47,49,46,49,13,10>>

\* "Host: multipass\r\n"
HostHeader == <<72,111,115,116,58,32,109,117,108,116,105,112,97,115,115,13,10>>

\* "User-Agent: Multipass/"
UserAgentPrefix == <<85,115,101,114,45,65,103,101,110,116,58,32,77,117,108,116,105,112,97,115,115,47>>

\* "Content-Type: application/x-www-form-urlencoded\r\n"
ContentTypeHeader == <<67,111,110,116,101,110,116,45,84,121,112,101,58,32,97,112,112,108,105,99,97,116,105,111,110,47,120,45,119,119,119,45,102,111,114,109,45,117,114,108,101,110,99,111,100,101,100,13,10>>

\* "Content-Length: "
ContentLengthPrefix == <<67,111,110,116,101,110,116,45,76,101,110,103,116,104,58,32>>

\* the bytes send_request writes for the request
http_data(o, u, out) ==
    o \o <<32>> \o u \o RequestLineEnd
      \o HostHeader
      \o UserAgentPrefix \o version_string \o CRLF
      \o (IF o = OpPost \/ o = OpPut
          THEN ContentTypeHeader
                 \o (IF out.present
                     THEN ContentLengthPrefix \o number(Len(out.data)) \o CRLF \o CRLF
                            \o out.data
                     ELSE << >>)
          ELSE << >>)
      \o CRLF

\* the constructor's call of send_request
send_request ==
    /\ socket_written = << >>
    /\ socket_written' = Append(socket_written, http_data(op, url, outgoing))
    /\ flushes' = flushes + 1
    /\ UNCHANGED <<op, url, outgoing>>
    /\ UNCHANGED <<reply_data, chunked_transfer_encoding, content_data, offset,
                   error, errorString, isFinished, openMode, signals, observed, returns,
                   aborts, undefined, crashed>>
    /\ UNCHANGED transportVars
    /\ UNCHANGED lifeVars

\* ------------------------------------------------------------------------
\* Specifications
\* ------------------------------------------------------------------------
\* the reply as the constructor leaves it, before send_request
InitReply ==
    /\ reply_data = << >>
    /\ chunked_transfer_encoding = FALSE
    /\ content_data = EmptyBA
    /\ offset = 0
    /\ error = "NoError"
    /\ errorString = << >>
    /\ isFinished = FALSE
    /\ openMode = "ReadOnly"
    /\ signals = << >>
    /\ observed = << >>
    /\ returns = << >>
    /\ aborts = 0
    /\ undefined = FALSE
    /\ crashed = FALSE

InitTransport ==
    /\ socket_state = "Connected"
    /\ closes = 0
    /\ destroyed = FALSE
    /\ sent = 0
    /\ nfrag = 0
    /\ sock = << >>
    /\ ready = FALSE

\* after construction: a GET request has been sent, the server is to answer
Init ==
    /\ stream \in Streams
    /\ InitTransport
    /\ InitReply
    /\ op = OpGet
    /\ url \in {<<47,49,46,48>>}
    /\ outgoing = NoOutgoing
    /\ socket_written = <<http_data(op, url, outgoing)>>
    /\ flushes = 1

Next ==
    \/ \E k \in 1..(Len(stream) - sent) : deliver(k)
    \/ read_reply
    \/ abort
    \/ \E m \in ReadSizes : read(m)
    \/ peer_disconnect
    \/ destroy

Spec == Init /\ [][Next]_vars

\* the status classifier on every status code of 100..599: the response is
\* a status line with that code, a blank line and no body
StatusStream(code) ==
    <<72,84,84,80,47,49,46,49,32>> \o number(code) \o <<32,79,111,112,115>> \o CRLF \o CRLF

InitClassify ==
    /\ stream \in {StatusStream(code) : code \in 100..599}
    /\ InitTransport
    /\ InitReply
    /\ op = OpGet
    /\ url \in {<<47,49,46,48>>}
    /\ outgoing = NoOutgoing
    /\ socket_written = <<http_data(op, url, outgoing)>>
    /\ flushes = 1

NextClassify ==
    \/ \E k \in 1..(Len(stream) - sent) : deliver(k)
    \/ read_reply

SpecClassify == InitClassify /\ [][NextClassify]_vars

\* the status line with every three-digit code outside 100..599
OutOfRangeCodes == (0..99) \cup (600..999)

StatusStream3(code) ==
    <<72,84,84,80,47,49,46,49,32>>
        \o <<48 + (code \div 100), 48 + ((code \div 10) % 10), 48 + (code % 10)>>
        \o <<32,79,111,112,115>> \o CRLF \o CRLF

InitOutOfRange ==
    /\ stream \in {StatusStream3(code) : code \in OutOfRangeCodes}
    /\ InitTransport
    /\ InitReply
    /\ op = OpGet
    /\ url \in {<<47,49,46,48>>}
    /\ outgoing = NoOutgoing
    /\ socket_written = <<http_data(op, url, outgoing)>>
    /\ flushes = 1

NextOutOfRange ==
    \/ \E k \in 1..(Len(stream) - sent) : deliver(k)
    \/ read_reply

SpecOutOfRange == InitOutOfRange /\ [][NextOutOfRange]_vars

\* responses that differ in the spelling of the framing header and in the
\* shape of the body
\* "transfer-encoding: chunked"
LowerChunkedHeader == <<116,114,97,110,115,102,101,114,45,101,110,99,111,100,105,110,103,58,32,99,104,117,110,107,101,100>>

\* "Transfer-Encoding: CHUNKED"
UpperChunkedHeader == <<84,114,97,110,115,102,101,114,45,69,110,99,111,100,105,110,103,58,32,67,72,85,78,75,69,68>>

\* "Content-Type: text/plain"
PlainHeader == <<67,111,110,116,101,110,116,45,84,121,112,101,58,32,116,101,120,116,47,112,108,97,105,110>>

\* 200 with the header line h and the body bytes body
StreamWith(h, body) == Status200 \o CRLF \o h \o CRLF \o CRLF \o body

\* a body of two lines, "ab" and "test"
TwoLineBody == PayloadAb \o <<LF>> \o PayloadTest \o <<LF>>

\* the body " ab " with a tab in front, ended by a line feed
SpacedBody == <<9, 32>> \o PayloadAb \o <<32>> \o <<LF>>

FramingStreams ==
    {StreamWith(h, ChunkedBody(<<PayloadTest>>)) :
        h \in {ChunkedHeader, LowerChunkedHeader, UpperChunkedHeader}}
      \cup {StreamWith(PlainHeader, body) :
              body \in {ChunkedHeader \o <<LF>>, TwoLineBody, SpacedBody,
                        PayloadTest \o <<LF>>}}

InitFraming ==
    /\ stream \in FramingStreams
    /\ InitTransport
    /\ InitReply
    /\ op = OpGet
    /\ url \in {<<47,49,46,48>>}
    /\ outgoing = NoOutgoing
    /\ socket_written = <<http_data(op, url, outgoing)>>
    /\ flushes = 1

SpecFraming == InitFraming /\ [][Next]_vars

\* the request encoder alone: the constructor's send_request on every request
InitEncode ==
    /\ stream = Stream200
    /\ InitTransport
    /\ InitReply
    /\ op \in Ops
    /\ url \in Urls
    /\ outgoing \in Outgoings
    /\ socket_written = << >>
    /\ flushes = 0

NextEncode == send_request

SpecEncode == InitEncode /\ [][NextEncode]_vars

\* ------------------------------------------------------------------------
\* Steps and derived state used by the properties
\* ------------------------------------------------------------------------
\* a step of abort, of read_reply (it emits and is no abort), of read
AbortStep == aborts' = aborts + 1

ReadReplyStep == aborts' = aborts /\ ready /\ ~ready' /\ ~destroyed'

ReadStep == Len(returns') = Len(returns) + 1

\* the signals the step emits
Emitted == SubSeq(signals', Len(signals) + 1, Len(signals'))

\* the four states of the Response
StillReading == ~isFinished

FinishedSuccessfully == isFinished /\ error = "NoError"

Canceled == isFinished /\ error = "OperationCanceledError"

FinishedWithError == isFinished /\ error \notin {"NoError", "OperationCanceledError"}

\* the whole response has arrived and a notification has read all of it
AllHandled == sent = Len(stream) /\ sock = << >> /\ ~ready /\ ~undefined

\* the whole response arrived in one fragment and one notification handled it
HandledInOne == AllHandled /\ nfrag = 1 /\ aborts = 0

\* the first line the parser saw at the last notification
FirstLine == fromLatin1(reply_lines(reply_data)[1])

\* ------------------------------------------------------------------------
\* C1
\* ------------------------------------------------------------------------
\* C1: the Response is in exactly one of the states still-reading,
\* finished-successfully, finished-with-error and canceled, where
\* still-reading has no error set; and once it is terminal no later step
\* changes its state, its error category or its message.
ResponseStateMonotonic ==
    /\ [](~undefined =>
            /\ Cardinality({i \in 1..4 :
                    <<StillReading, FinishedSuccessfully, FinishedWithError, Canceled>>[i]}) = 1
            /\ (StillReading => error = "NoError"))
    /\ [][isFinished /\ ~undefined' =>
            /\ isFinished'
            /\ error' = error
            /\ errorString' = errorString]_vars

\* ------------------------------------------------------------------------
\* C2
\* ------------------------------------------------------------------------
\* abort() was called before any notification had been handled
AbortedBeforeTerminal ==
    Len(signals) >= 1 /\ signals[1] = <<"error", "OperationCanceledError">>

\* C2: after an abort() before the Response was terminal, the Response is
\* terminal with category Canceled and stays so, nothing is read from the
\* transport or parsed (the receive buffer stays untouched, Body stays
\* empty) and no read delivers a byte.
CancelIsFinal ==
    AbortedBeforeTerminal /\ ~undefined =>
        /\ Canceled
        /\ reply_data = << >>
        /\ IsEmpty(content_data)
        /\ \A i \in 1..Len(returns) : returns[i].n <= 0

\* ------------------------------------------------------------------------
\* C3
\* ------------------------------------------------------------------------
\* the terminal Response when the whole of s arrives in one read of one
\* notification
OneShot(s) ==
    LET buf == drain(<< >>, s)
        st == parse_status(reply_lines(buf)[1], [error |-> "NoError", errorString |-> << >>])
    IN  {[content |-> r.content, error |-> st.error, errorString |-> st.errorString] :
            r \in {q \in parse_reply(buf, FALSE, EmptyBA) : ~q.undefined}}

\* C3: once the whole stream has arrived and been handled, Body and the
\* error outcome are those of the stream delivered in one notification,
\* however the stream was split.
FragmentationIndependent ==
    AllHandled /\ aborts = 0 =>
        /\ isFinished
        /\ [content |-> content_data, error |-> error, errorString |-> errorString]
              \in OneShot(stream)

\* ------------------------------------------------------------------------
\* C4
\* ------------------------------------------------------------------------
\* C4: a chunked response of N >= 1 non-empty chunks and the zero-size
\* chunk, handled in one notification, gives Body = the concatenation of
\* the chunk payloads, and no error.
ChunkedBodyReassembled ==
    \A cs \in ChunkLists :
        stream = ChunkedStream(cs) /\ HandledInOne =>
            /\ content_data = BA(Concat(cs))
            /\ error = "NoError"

\* ------------------------------------------------------------------------
\* C5
\* ------------------------------------------------------------------------
\* the table of the status classifier
TableCategory(code) ==
    IF code = 400 THEN "ProtocolInvalidOperationError"
    ELSE IF code = 401 THEN "AuthenticationRequiredError"
    ELSE IF code = 403 THEN "ContentAccessDenied"
    ELSE IF code = 404 THEN "ContentNotFoundError"
    ELSE IF code = 409 THEN "ContentConflictError"
    ELSE IF code = 500 THEN "InternalServerError"
    ELSE IF code \in 501..599 THEN "UnknownServerError"
    ELSE "UnknownContentError"

\* the error signals among the signals s
RECURSIVE ErrorsIn(_)
ErrorsIn(s) ==
    IF s = << >> THEN << >>
    ELSE (IF Head(s)[1] = "error" THEN <<Head(s)[2]>> ELSE << >>) \o ErrorsIn(Tail(s))

\* C5: a notification whose first line is a well-formed status line with a
\* code of 100..599 sets the category of the table and emits it once if
\* the code is >= 400, and sets and emits no error if the code is < 400.
ClassifierTable ==
    [][ReadReplyStep =>
        LET s == fromLatin1(reply_lines(reply_data')[1])
        IN  http_status_match(s) /\ capturedStatus(s) \in 100..599 =>
              IF capturedStatus(s) >= 400
              THEN /\ error' = TableCategory(capturedStatus(s))
                   /\ ErrorsIn(Emitted) = <<TableCategory(capturedStatus(s))>>
              ELSE /\ error' = error
                   /\ errorString' = errorString
                   /\ ErrorsIn(Emitted) = << >>]_vars

\* a notification saw a well-formed status line with code 409, set the
\* category Conflict and emitted it once, before finished
ClassifierTableWitness ==
    /\ isFinished
    /\ http_status_match(FirstLine)
    /\ capturedStatus(FirstLine) = 409
    /\ error = "ContentConflictError"
    /\ signals = << <<"error", "ContentConflictError">>, <<"finished", "">> >>

\* ------------------------------------------------------------------------
\* C6
\* ------------------------------------------------------------------------
\* C6: when the first line of the received bytes is no status line, the
\* Response is terminal with the malformed-status-line error and Body is
\* empty, whatever follows the first line.
MalformedHasNoBody ==
    HandledInOne /\ ~http_status_match(FirstLine) =>
        /\ isFinished
        /\ error = "ProtocolFailure"
        /\ IsEmpty(content_data)

\* ------------------------------------------------------------------------
\* C7
\* ------------------------------------------------------------------------
\* "Oops"
OopsPhrase == <<79,111,112,115>>

\* the responses with an error status: category, reason phrase and body
ErrorResponses ==
    {[stream |-> Stream404, category |-> "ContentNotFoundError",
      phrase |-> NotFoundPhrase, body |-> << >>],
     [stream |-> Stream500Body, category |-> "InternalServerError",
      phrase |-> OopsPhrase, body |-> PayloadAb]}

\* C7: a well-formed response with a status code >= 400 ends with the
\* classified category, the reason phrase as the message (no line
\* terminator in it) and Body = the body payload; 404 Not Found with no
\* body gives NotFound, "Not Found" and an empty Body.
ErrorStatusMessageAndBody ==
    \A r \in ErrorResponses :
        stream = r.stream /\ HandledInOne =>
            /\ error = r.category
            /\ errorString = r.phrase
            /\ content_data = BA(r.body)

\* ------------------------------------------------------------------------
\* C8
\* ------------------------------------------------------------------------
\* the chunks returned by the reads s, laid end to end from offset p on,
\* are the bytes of Body
RECURSIVE ReturnedFromBody(_, _)
ReturnedFromBody(s, p) ==
    IF s = << >> THEN TRUE
    ELSE IF Head(s).n <= 0 THEN ReturnedFromBody(Tail(s), p)
    ELSE /\ p + Head(s).n <= Size(content_data)
         /\ Head(s).data = Mid(content_data, p, Head(s).n)
         /\ ReturnedFromBody(Tail(s), p + Head(s).n)

\* C8: 0 <= cursor <= length(Body) and the cursor never decreases; a read
\* with cursor < length(Body) returns min(maxBytes, length(Body) - cursor)
\* bytes from the cursor on and advances the cursor by that count; the
\* bytes returned so far are a prefix of Body.
CursorWithinBody ==
    /\ [](~undefined =>
            /\ 0 <= offset /\ offset <= Size(content_data)
            /\ ReturnedFromBody(returns, 0))
    /\ [][offset' >= offset]_vars
    /\ [][ReadStep /\ openMode = "ReadOnly" /\ offset < Size(content_data) =>
            /\ \E m \in ReadSizes :
                  returns'[Len(returns')].n = Min(m, Size(content_data) - offset)
            /\ returns'[Len(returns')].data
                  = Mid(content_data, offset, returns'[Len(returns')].n)
            /\ offset' = offset + returns'[Len(returns')].n]_vars

\* ------------------------------------------------------------------------
\* C9
\* ------------------------------------------------------------------------
\* C9: a read with the cursor at (or past) the end of Body returns "no
\* more data" (-1), delivers no byte and leaves the cursor and the error
\* state as they are.
ReadAtEndReturnsNoData ==
    [][ReadStep /\ offset >= Size(content_data) =>
        /\ returns'[Len(returns')].n = -1
        /\ IsEmpty(returns'[Len(returns')].data)
        /\ offset' = offset
        /\ error' = error
        /\ errorString' = errorString]_vars

\* a read returned the whole non-empty Body and the next read returned -1
ReadAtEndWitness ==
    /\ openMode = "ReadOnly"
    /\ Len(returns) = 2
    /\ returns[1].n = Size(content_data)
    /\ returns[1].n > 0
    /\ returns[2].n = -1
    /\ offset = Size(content_data)

\* ------------------------------------------------------------------------
\* C10
\* ------------------------------------------------------------------------
\* the index of the first occurrence of pat in s, 0 if there is none
IndexOf(s, pat) ==
    LET at == {i \in 1..(Len(s) - Len(pat) + 1) : SubSeq(s, i, i + Len(pat) - 1) = pat}
    IN  IF at = {} THEN 0 ELSE CHOOSE i \in at : \A j \in at : i <= j

\* the bytes of the request s after the blank line that ends the headers
AfterHeaderBlock(s) ==
    SubSeq(s, IndexOf(s, CRLF \o CRLF) + 4, Len(s))

RECURSIVE DecimalValue(_)
DecimalValue(d) ==
    IF d = << >> THEN 0 ELSE 10 * DecimalValue(SubSeq(d, 1, Len(d) - 1)) + (d[Len(d)] - 48)

\* the value of the Content-Length header of the request s
ContentLengthOf(s) ==
    LET from == IndexOf(s, ContentLengthPrefix) + Len(ContentLengthPrefix)
        rest == SubSeq(s, from, Len(s))
    IN  DecimalValue(SubSeq(rest, 1, IndexOf(rest, CRLF) - 1))

\* C10: for POST or PUT with a non-empty body the request is written once
\* and flushed, its Content-Length is the body's length and the bytes
\* after the blank line are the body and nothing else.
RequestBodyExact ==
    /\ socket_written # << >>
    /\ op \in {OpPost, OpPut}
    /\ outgoing.present
    /\ outgoing.data # << >>
    => /\ Len(socket_written) = 1
       /\ flushes = 1
       /\ IndexOf(socket_written[1], ContentLengthPrefix) > 0
       /\ ContentLengthOf(socket_written[1]) = Len(outgoing.data)
       /\ AfterHeaderBlock(socket_written[1]) = outgoing.data

\* ------------------------------------------------------------------------
\* C11
\* ------------------------------------------------------------------------
\* the server closed the connection before it had written the whole
\* response, every notification has been handled and the caller has done
\* nothing to end the reply: no step of the reply is left to take
DisconnectedIncomplete ==
    /\ socket_state = "Unconnected"
    /\ sent < Len(stream)
    /\ ~ready
    /\ ~destroyed /\ ~crashed /\ aborts = 0

\* C11: when the transport disconnects before a complete response has
\* arrived, the Response ends terminal with the incomplete-response error
\* (QNetworkReply::RemoteHostClosedError): it neither stays in the reading
\* state nor finishes as a success.
DisconnectSurfaced ==
    DisconnectedIncomplete =>
        /\ isFinished
        /\ error = "RemoteHostClosedError"

\* ------------------------------------------------------------------------
\* C12
\* ------------------------------------------------------------------------
\* C12: the reply closes the transport connection exactly once: abort()
\* closes it, destruction closes it if it is still open, and it is never
\* closed twice nor left open after cancellation.
TransportClosedOnce ==
    /\ closes <= 1
    /\ (aborts > 0 \/ destroyed) /\ ~crashed => closes = 1

\* ------------------------------------------------------------------------
\* C13
\* ------------------------------------------------------------------------
\* the bytes the reply has read from the socket so far, in arrival order
BytesRead == SubSeq(stream, 1, sent - Len(sock))

\* C13: the buffer the parser is handed holds every byte read from the
\* transport so far, in arrival order: each read appends, nothing read
\* earlier is overwritten, reordered or dropped.
BufferIsAllBytesRead == reply_data = BytesRead

\* ------------------------------------------------------------------------
\* C14
\* ------------------------------------------------------------------------
\* the received bytes hold a complete response: the blank line that ends
\* the header block has arrived and, if the headers announce chunked
\* framing, so has the zero-size chunk after the last chunk
ResponseComplete(bytes) ==
    /\ IndexOf(bytes, CRLF \o CRLF) > 0
    /\ IndexOf(bytes, ChunkedHeader) > 0 => IndexOf(bytes, CRLF \o LastChunk) > 0

\* C14: a notification after which the bytes received so far are no
\* complete response leaves the Response in the reading state and emits no
\* finished; the Response is finished only by a parse of a complete response.
FinishedOnlyWhenComplete ==
    [][ReadReplyStep /\ ~undefined' /\ ~ResponseComplete(BytesRead') =>
        /\ isFinished' = isFinished
        /\ \A i \in 1..Len(Emitted) : Emitted[i][1] # "finished"]_vars

\* ------------------------------------------------------------------------
\* C15
\* ------------------------------------------------------------------------
\* s is "HTTP/<digit>.<digit> <three digits> <text>"
ThreeDigitStatusLine(s) ==
    /\ Len(s) >= 13
    /\ SubSeq(s, 1, 5) = <<72,84,84,80,47>>
    /\ s[6] \in 48..57 /\ s[7] = 46 /\ s[8] \in 48..57 /\ s[9] = 32
    /\ \A i \in 10..12 : s[i] \in 48..57
    /\ s[13] = 32

ThreeDigitCode(s) == (s[10] - 48) * 100 + (s[11] - 48) * 10 + (s[12] - 48)

ToLower(s) == [i \in 1..Len(s) |-> IF s[i] \in 65..90 THEN s[i] + 32 ELSE s[i]]

\* the header lines of the response s: the lines after the status line and
\* before the blank line
HeaderLinesOf(s) ==
    Tail(Split(SubSeq(s, 1, IndexOf(s, CRLF \o CRLF) - 1), LF))

\* some header line holds "Transfer-Encoding" and "chunked", compared
\* without regard to case
ChunkedAnnounced(s) ==
    \E i \in 1..Len(HeaderLinesOf(s)) :
        /\ IndexOf(ToLower(HeaderLinesOf(s)[i]), ToLower(TransferEncodingWord)) > 0
        /\ IndexOf(ToLower(HeaderLinesOf(s)[i]), ToLower(ChunkedWord)) > 0

\* C16: chunked framing is selected if and only if some header line before
\* the blank line holds both "Transfer-Encoding" and "chunked" compared
\* case-insensitively; lines after the blank line do not count.
ChunkedIffAnnounced ==
    HandledInOne => (chunked_transfer_encoding <=> ChunkedAnnounced(stream))

\* ------------------------------------------------------------------------
\* C17
\* ------------------------------------------------------------------------
\* s without one line terminator (CRLF or LF) at its end, if it has one
WithoutOneTerminator(s) ==
    IF Len(s) >= 2 /\ SubSeq(s, Len(s) - 1, Len(s)) = CRLF THEN SubSeq(s, 1, Len(s) - 2)
    ELSE IF Len(s) >= 1 /\ s[Len(s)] = LF THEN SubSeq(s, 1, Len(s) - 1)
    ELSE s

\* C17: for a response that is not chunked, Body is all the bytes after
\* the blank line, verbatim but for one line terminator at the end: a body
\* of several lines is kept whole, spaces and tabs of the body are kept.
PlainBodyVerbatim ==
    HandledInOne /\ ~ChunkedAnnounced(stream) /\ AfterHeaderBlock(stream) # << >> =>
        content_data = BA(WithoutOneTerminator(AfterHeaderBlock(stream)))

\* ------------------------------------------------------------------------
\* C18
\* ------------------------------------------------------------------------
\* C18: whatever the receive buffer holds, the parser's line cursor refers
\* to an existing line whenever it is dereferenced: stepping 1 (not chunked)
\* or 2 (chunked) past the blank line never reaches the end of the list of
\* lines.
CursorRefersToLine == ~undefined

\* ------------------------------------------------------------------------
\* C19
\* ------------------------------------------------------------------------
\* C19: every byte of Body was received from the transport for this
\* response: Body holds none of the zero bytes the receive buffer was
\* filled with at construction, and is a run of bytes of what was read.
BodyFromReceivedBytes ==
    ~undefined =>
        /\ content_data.z = 0
        /\ content_data.b = << >> \/ IndexOf(BytesRead, content_data.b) > 0

\* ------------------------------------------------------------------------
\* C20
\* ------------------------------------------------------------------------
\* what the slots read from the reply at the signals the step emits
ObservedInStep == SubSeq(observed', Len(observed) + 1, Len(observed'))

\* the positions of the error signals among the signals s
ErrorPositions(s) == {i \in 1..Len(s) : s[i][1] = "error"}

\* C20: in every step, only a readiness notification or an abort emits
\* signals; it emits at most one error signal; the error signal comes before
\* the finished signal of the step and none comes after it; and a slot of the
\* error signal reads from the reply the category the signal carries and the
\* category and message the step leaves in the reply.
ErrorThenFinishedStep ==
    ~undefined' =>
        /\ Emitted # << >> => AbortStep \/ ReadReplyStep
        /\ Cardinality(ErrorPositions(Emitted)) <= 1
        /\ \A i \in ErrorPositions(Emitted) :
              /\ i = 1 /\ Len(Emitted) = 2 /\ Emitted[2][1] = "finished"
              /\ ObservedInStep[i].error = Emitted[i][2]
              /\ ObservedInStep[i].error = error'
              /\ ObservedInStep[i].errorString = errorString'
              /\ error' # "NoError"
        /\ AbortStep => Emitted = << <<"error", "OperationCanceledError">>, <<"finished", "">> >>

ErrorBeforeFinished == [][ErrorThenFinishedStep]_vars

\* a notification has reported a malformed status line and an abort the
\* cancellation, each with its error signal before its finished signal
ErrorBeforeFinishedWitness ==
    /\ ~undefined
    /\ signals = << <<"error", "ProtocolFailure">>, <<"finished", "">>,
                    <<"error", "OperationCanceledError">>, <<"finished", "">> >>
    /\ observed[1].error = "ProtocolFailure" /\ ~observed[1].isFinished
    /\ observed[3].error = "OperationCanceledError"

====
